---- MODULE Spec2Model ----
(***************************************************************************)
(* State-machine model of the task/result relay, the recording store and   *)
(* the instant-replay engine of src/server.js (the capture-based server).  *)
(*                                                                         *)
(* JavaScript objects used as maps (tasks, results, phoneIpMap, ...) are   *)
(* functions whose DOMAIN is the set of keys present; `delete m[k]` takes  *)
(* k out of the domain.  A missing / undefined / null / empty field of a   *)
(* request body is the empty string "" (all of them are falsy for the      *)
(* `!b.x` and `b.x || d` tests of the code); a missing number is 0.        *)
(* Every handler runs to completion (single-threaded event loop), so one   *)
(* handler, or one callback of an asynchronous function, is one action.    *)
(* Time is Date.now() in milliseconds.                                     *)
(***************************************************************************)
EXTENDS Integers, Sequences, FiniteSets, TLC

VARIABLES
    now,                \* Date.now()
    ticks,              \* how many times the clock has advanced (bounds the run)
    tasks,              \* const tasks = {}            phone -> task
    results,            \* const results = {}          phone -> result
    phoneIpMap,         \* const phoneIpMap = {}       phone -> ip
    preSelfies,         \* const preSelfies = {}       id -> recording
    phonePreselfieMap,  \* const phonePreselfieMap={}  phone -> recording id
    captureBuffers,     \* const captureBuffers = {}   captureSession -> buffer
    replays,            \* the replayPreselfie() calls in flight
    issuedIds,          \* the recording ids crypto.randomBytes has produced so far
    launched,           \* replay calls started so far
    storedAt,           \* history: when each task, result and ip entry was written
    proxied,            \* the /oz-proxy requests in flight, in the order they arrived
    variant,            \* which of the server files is running
    escaped             \* the handlers an exception has escaped from

vars == <<now, ticks, tasks, results, phoneIpMap, preSelfies, phonePreselfieMap,
          captureBuffers, replays, issuedIds, launched, storedAt,
          proxied, variant, escaped>>

relayVars == <<tasks, results, phoneIpMap, storedAt>>
recVars == <<preSelfies, phonePreselfieMap, captureBuffers, issuedIds>>
clockVars == <<now, ticks>>
procVars == <<proxied, variant, escaped>>

----------------------------------------------------------------------------
(* Bounds of the model *)

\* clock advances per behaviour
MaxTicks == 1
\* replayPreselfie() calls per behaviour
MaxReplays == 1
\* exchanges captured per capture session
MaxCaptures == 1
\* proxied requests in flight at once, and exchanges they may leave in a session
MaxProxied == 2
\* replayWithPuppeteer() calls per behaviour of the Puppeteer server
V11_MaxReplays == 2

(* Input sets *)

Keys == {"k1", "k2"}
\* a phone as a caller may send it to the /api routes: possibly padded
PaddedKeys == Keys \cup {" k1 "}
UserIds == {"u1", "u2"}
TransactionIds == {"t1"}
Ips == {"ip1"}
Tokens == {"s1"}
Statuses == {"error"}
Sessions == {"preselfie_a"}
\* the values 'ps_' + crypto.randomBytes(6).toString('hex') takes
RecordingIds == {"ps_1"}
Labels == {"L"}
Methods == {"GET", "POST"}
Paths == {"/p1", "/p2"}

----------------------------------------------------------------------------
(* Program constants *)

SweepInterval == 5 * 60 * 1000
MAX_TASK == 30 * 60 * 1000
MAX_PRESELFIE == 7 * 24 * 60 * 60 * 1000

\* the moment the server starts (Date.now() counted from an origin long before
\* it), and a timestamp a client may send: one of long ago
StartTime == 2 * MAX_TASK
OldStamp == 1


----------------------------------------------------------------------------
(* JavaScript helpers *)

\* a || b
Or(a, b) == IF a = "" THEN b ELSE a
\* n || m, on numbers
OrNum(n, m) == IF n = 0 THEN m ELSE n
\* m[k] = v
Put(m, k, v) == [x \in DOMAIN m \cup {k} |-> IF x = k THEN v ELSE m[x]]
\* delete m[k]
Delete(m, k) == [x \in DOMAIN m \ {k} |-> m[x]]
\* m[k] || ''
GetOr(m, k) == IF k \in DOMAIN m THEN m[k] ELSE ""
\* a JSON value that is no string (the number 123), written as a tagged string
NonStrings == {"#123"}
\* typeof v === 'string'
IsString(v) == v \notin NonStrings
\* String.prototype.trim
Trim(s) == IF s = " k1 " THEN "k1" ELSE s
\* String.prototype.startsWith('preselfie_')
IsCaptureKey(phone) == phone \in Sessions

Empty == [x \in {} |-> 0]

\* history only: entry k of store s is written now / removed
Stamp(s, k) == [storedAt EXCEPT ![s] = Put(@, k, now)]
Unstamp(h, s, ks) == [h EXCEPT ![s] = [x \in DOMAIN @ \ ks |-> @[x]]]

----------------------------------------------------------------------------
(* Request bodies *)

\* POST /task/:phone   (cookies, userAgent, pageUrl and verificationToken are
\* copied with `b.x || ''` exactly as realIp is and read by nothing else)
TaskBodiesOver(users, stamps) ==
    [userId : users \cup {""}, transactionId : TransactionIds \cup {""},
     realIp : Ips \cup {""}, timestamp : stamps]

\* POST /result/:phone
ResultBodiesOver(statuses, stamps) ==
    [event_session_id : Tokens \cup {""}, status : statuses \cup {""},
     realIp : Ips \cup {""}, timestamp : stamps]

\* a body the upstream answers a replayed call with: JSON carrying any of the
\* token fields, or text that is not JSON
NoTokenBody ==
    [json |-> TRUE, event_session_id |-> "", session_id |-> "", id |-> "",
     data_event_session_id |-> ""]
TokenBody == [NoTokenBody EXCEPT !.event_session_id = "s2"]
\* the answer to a session-create call
SessionBody == [NoTokenBody EXCEPT !.session_id = "s3"]

----------------------------------------------------------------------------
(* Task / result relay *)

\* if (!b.userId || !b.transactionId) return res.status(400)
TaskBodyValid(b) == b.userId # "" /\ b.transactionId # ""

\* fault: the two correlation fields stored crosswise
TaskOfSwapped(b) ==
    [userId |-> b.transactionId, transactionId |-> b.userId,
     realIp |-> Or(b.realIp, ""), timestamp |-> OrNum(b.timestamp, now)]

\* the object stored in tasks[phone]
TaskOf(b) ==
    [userId |-> b.userId, transactionId |-> b.transactionId,
     realIp |-> Or(b.realIp, ""), timestamp |-> OrNum(b.timestamp, now)]

\* preselfieId && preSelfies[preselfieId] && preSelfies[preselfieId].status === 'ready'
InstantReady(phone) ==
    /\ phone \in DOMAIN phonePreselfieMap
    /\ phonePreselfieMap[phone] \in DOMAIN preSelfies
    /\ preSelfies[phonePreselfieMap[phone]].status = "ready"

\* the index of the first exchange at or after i that the loop does not skip
\* (if (cap.method !== 'POST') continue), or Len + 1
\* fault: the loop takes every exchange
NextAny(captures, i) == i

RECURSIVE NextPost(_, _)
NextPost(captures, i) ==
    IF i > Len(captures) THEN i
    ELSE IF captures[i].method = "POST" THEN i
    ELSE NextPost(captures, i + 1)

\* fault: the handler awaits the replay before it answers
SubmitAckedAfterReplay(instant) == ~instant

\* whether the handler has answered by the time the replay it started runs on
\* (res.json follows the un-awaited replayPreselfie(...) call)
SubmitAcked(instant) == TRUE

\* if (!ps || !ps.captures || ps.captures.length === 0) throw new Error('No capture data')
ReplayThrows(id) == id \notin DOMAIN preSelfies \/ Len(preSelfies[id].captures) = 0

\* the loop skips every exchange: the call returns null without awaiting anything
ReplayIssuesNoCall(id) ==
    NextPost(preSelfies[id].captures, 1) > Len(preSelfies[id].captures)

\* fault: the counter written from the value read when the replay began
UpdateStatsStale(id) ==
    IF id \in DOMAIN preSelfies
    THEN [preSelfies EXCEPT ![id].lastUsed = now, ![id].useCount = 1]
    ELSE preSelfies

\* fault: a replayed recording is marked used (as the Puppeteer server does)
UpdateStatsUsed(id) ==
    IF id \in DOMAIN preSelfies
    THEN [preSelfies EXCEPT ![id].lastUsed = now, ![id].useCount = @ + 1,
                            ![id].status = "used"]
    ELSE preSelfies

\* ps.lastUsed = Date.now(); ps.useCount = (ps.useCount || 0) + 1
\* (ps is the object the call read at its start: the update reaches the store
\* only while that object is still in it; ids are never reused)
UpdateStats(id) ==
    IF id \in DOMAIN preSelfies
    THEN [preSelfies EXCEPT ![id].lastUsed = now, ![id].useCount = @ + 1]
    ELSE preSelfies

\* the replayPreselfie(...) call as it stands at its first await
\* (acked, cleared and calls are history: whether the handler that made the call
\* has answered, whether the key was cleared since, and the proxyRequest calls
\* issued so far)
NewReplay(id, userId, realIp, phone, manual, acked) ==
    [rid |-> launched + 1, manual |-> manual, phone |-> phone, preselfieId |-> id,
     userId |-> userId, realIp |-> realIp,
     captures |-> preSelfies[id].captures,
     i |-> NextPost(preSelfies[id].captures, 1),
     lastSessionId |-> "", pc |-> "http", acked |-> acked, cleared |-> FALSE,
     calls |-> 1, failed |-> 0]

\* if (ps.videoData): a recording made of a video (src/unnamed/part_001)
HasVideo(id) == id \in DOMAIN preSelfies /\ "videoData" \in DOMAIN preSelfies[id]

\* replayWithVideo(...) as it stands at its first await, the session-create call
NewVideoReplay(id, userId, realIp, phone, manual, acked) ==
    [rid |-> launched + 1, manual |-> manual, phone |-> phone, preselfieId |-> id,
     userId |-> userId, realIp |-> realIp, captures |-> <<>>, i |-> 0,
     lastSessionId |-> "", pc |-> "session", acked |-> acked, cleared |-> FALSE,
     calls |-> 1, failed |-> 0]

\* replayPreselfie(...) from its call to its first await: the replays in flight
\* and the recordings afterwards
StartReplay(id, userId, realIp, phone, manual, acked) ==
    /\ launched' = launched + 1
    /\ IF HasVideo(id)
       THEN /\ replays' = replays \cup {NewVideoReplay(id, userId, realIp, phone, manual, acked)}
            /\ UNCHANGED preSelfies
       ELSE IF ReplayThrows(id) THEN UNCHANGED <<replays, preSelfies>>
       ELSE IF ReplayIssuesNoCall(id)
       THEN /\ preSelfies' = UpdateStats(id)
            /\ UNCHANGED replays
       ELSE /\ replays' = replays \cup {NewReplay(id, userId, realIp, phone, manual, acked)}
            /\ UNCHANGED preSelfies

\* b.userId.substring(0, 20) in the handler's log line: a TypeError unless
\* userId is a string
SubmitThrows(b) == ~IsString(b.userId)

\* the JSON the handler answers POST /task/:phone with (500: the framework's
\* answer to the rejected handler, where the framework in use gives one)
SubmitResponse(phone, b) ==
    IF ~TaskBodyValid(b) THEN [status |-> 400, ok |-> FALSE, instant |-> FALSE]
    ELSE IF SubmitThrows(b) THEN [status |-> 500, ok |-> FALSE, instant |-> FALSE]
    ELSE [status |-> 200, ok |-> TRUE, instant |-> InstantReady(phone)]

\* app.post('/task/:phone')
SubmitTask(phone, b) ==
    /\ (TaskBodyValid(b) /\ InstantReady(phone)) => launched < MaxReplays
    /\ IF ~TaskBodyValid(b) THEN UNCHANGED vars
       ELSE /\ tasks' = Put(tasks, phone, TaskOf(b))
            /\ phoneIpMap' = IF b.realIp # "" THEN Put(phoneIpMap, phone, b.realIp)
                             ELSE phoneIpMap
            /\ IF SubmitThrows(b)
               THEN \* the async handler's promise rejects after the two writes:
                    \* no replay, and the rejection is handled by the framework
                    \* or by nothing
                    /\ UNCHANGED <<replays, launched, preSelfies>>
                    /\ escaped' \in {escaped, escaped \cup {"submitTask"}}
               ELSE /\ IF InstantReady(phone)
                       THEN StartReplay(phonePreselfieMap[phone], b.userId, b.realIp,
                                        phone, FALSE, SubmitAcked(TRUE))
                       ELSE UNCHANGED <<replays, launched, preSelfies>>
                    /\ escaped' = escaped
            /\ storedAt' = IF b.realIp # ""
                           THEN [Stamp("tasks", phone) EXCEPT !.ips = Put(@, phone, now)]
                           ELSE Stamp("tasks", phone)
            /\ UNCHANGED <<results, phonePreselfieMap, captureBuffers, issuedIds, clockVars,
                           proxied, variant>>

\* app.get('/task/:phone'): the task as a sequence of at most one element
pollTask(phone) ==
    IF phone \in DOMAIN tasks THEN [ok |-> TRUE, task |-> <<tasks[phone]>>]
    ELSE [ok |-> FALSE, task |-> <<>>]

\* fault: a poll that takes the task away
PollTaskTakes(phone) ==
    /\ tasks' = Delete(tasks, phone)
    /\ UNCHANGED <<results, phoneIpMap, storedAt, recVars, clockVars, replays, launched, procVars>>

\* the handler of app.get('/task/:phone') writes to no store
PollTask(phone) == UNCHANGED vars

\* fault: no validation of the token
ResultBodyAny(b) == TRUE

\* if (!b.event_session_id) return res.status(400)
ResultBodyValid(b) == b.event_session_id # ""

\* fault: the status stored where the token belongs
ResultOfWrongField(phone, b) ==
    [event_session_id |-> Or(b.status, "completed"),
     status |-> Or(b.status, "completed"),
     realIp |-> Or(b.realIp, GetOr(phoneIpMap, phone)),
     timestamp |-> OrNum(b.timestamp, now),
     instant |-> FALSE, preselfieId |-> ""]

\* the object stored in results[phone] by POST /result/:phone
ResultOf(phone, b) ==
    [event_session_id |-> b.event_session_id,
     status |-> Or(b.status, "completed"),
     realIp |-> Or(b.realIp, GetOr(phoneIpMap, phone)),
     timestamp |-> OrNum(b.timestamp, now),
     instant |-> FALSE, preselfieId |-> ""]

\* (500: b.event_session_id.substring(0, 20) in the log line throws inside the
\* synchronous handler, which the framework answers)
PostResultResponse(phone, b) ==
    IF ~ResultBodyValid(b) THEN [status |-> 400, ok |-> FALSE]
    ELSE IF ~IsString(b.event_session_id) THEN [status |-> 500, ok |-> FALSE]
    ELSE [status |-> 200, ok |-> TRUE]

\* app.post('/result/:phone')
PostResult(phone, b) ==
    IF ~ResultBodyValid(b) THEN UNCHANGED vars
    ELSE /\ results' = Put(results, phone, ResultOf(phone, b))
         /\ tasks' = Delete(tasks, phone)
         /\ storedAt' = Unstamp(Stamp("results", phone), "tasks", {phone})
         /\ UNCHANGED <<phoneIpMap, recVars, clockVars, replays, launched, procVars>>

\* app.get('/result/:phone')
pollResult(phone) ==
    IF phone \in DOMAIN results THEN [ok |-> TRUE, result |-> <<results[phone]>>]
    ELSE [ok |-> FALSE, result |-> <<>>]

PollResult(phone) == UNCHANGED vars

\* fault: the ip association left behind
ClearKeepsIp(p) ==
    /\ tasks' = Delete(tasks, p)
    /\ results' = Delete(results, p)
    /\ storedAt' = Unstamp(Unstamp(storedAt, "tasks", {p}), "results", {p})
    /\ UNCHANGED <<phoneIpMap, recVars, clockVars, replays, launched, procVars>>

\* fault: the clear of one key empties the task store
ClearAllTasks(p) ==
    /\ tasks' = Empty
    /\ results' = Delete(results, p)
    /\ phoneIpMap' = Delete(phoneIpMap, p)
    /\ storedAt' = Unstamp(Unstamp(Unstamp(storedAt, "tasks", DOMAIN tasks), "results", {p}),
                           "ips", {p})
    /\ UNCHANGED <<recVars, clockVars, replays, launched, procVars>>

\* history only: the replays in flight for key p see it cleared
ClearedUnder(p) ==
    {[r EXCEPT !.cleared = @ \/ (r.phone = p /\ ~r.manual)] : r \in replays}

\* app.delete('/clear/:phone')
Clear(p) ==
    /\ tasks' = Delete(tasks, p)
    /\ results' = Delete(results, p)
    /\ phoneIpMap' = Delete(phoneIpMap, p)
    /\ storedAt' = Unstamp(Unstamp(Unstamp(storedAt, "tasks", {p}), "results", {p}), "ips", {p})
    /\ replays' = ClearedUnder(p)
    /\ UNCHANGED <<recVars, clockVars, launched, procVars>>

\* app.get('/oz-page'): if (phone && realIp) phoneIpMap[phone] = realIp
OzPage(phone, realIp) ==
    IF phone # "" /\ realIp # ""
    THEN /\ phoneIpMap' = Put(phoneIpMap, phone, realIp)
         /\ storedAt' = Stamp("ips", phone)
         /\ UNCHANGED <<tasks, results, recVars, clockVars, replays, launched, procVars>>
    ELSE UNCHANGED vars

----------------------------------------------------------------------------
(* Replay engine *)

\* the token kept after one response (lastSessionId after the extraction block)
ExtractSessionId(last, body) ==
    IF body.json
    THEN LET a == IF body.event_session_id # "" THEN body.event_session_id ELSE last
             b == IF body.session_id # "" /\ a = "" THEN body.session_id ELSE a
         IN  IF body.data_event_session_id # "" THEN body.data_event_session_id ELSE b
    ELSE \* /"event_session_id"\s*:\s*"([^"]+)"/ on the text
         IF body.event_session_id # "" THEN body.event_session_id ELSE last

\* fault: the result of a replay stored without its provenance flag
InstantResultUnflagged(r) ==
    [event_session_id |-> r.lastSessionId, status |-> "completed",
     realIp |-> Or(r.realIp, GetOr(phoneIpMap, r.phone)),
     timestamp |-> now, instant |-> FALSE, preselfieId |-> r.preselfieId]

\* the object the .then callback stores in results[phone]
InstantResultOf(r) ==
    [event_session_id |-> r.lastSessionId, status |-> "completed",
     realIp |-> Or(r.realIp, GetOr(phoneIpMap, r.phone)),
     timestamp |-> now, instant |-> TRUE, preselfieId |-> r.preselfieId]

\* fault: the callback drops the token
ThenStoresNothing(r) == FALSE

\* .then(sessionId => { if (sessionId) {...} else {...} }) of POST /task/:phone
\* (the console.log after the two writes may throw when the recording is gone:
\* .catch logs it and the writes stay)
ThenStoresResult(r) == ~r.manual /\ r.lastSessionId # ""

\* the loop has ended: statistics, return, and the caller's continuation
FinishReplay(r) ==
    /\ preSelfies' = UpdateStats(r.preselfieId)
    /\ replays' = replays \ {r}
    /\ IF ThenStoresResult(r)
       THEN /\ results' = Put(results, r.phone, InstantResultOf(r))
            /\ tasks' = Delete(tasks, r.phone)
            /\ storedAt' = Unstamp(Stamp("results", r.phone), "tasks", {r.phone})
       ELSE UNCHANGED <<tasks, results, storedAt>>

\* the loop moves on from exchange r.i with token `last`, after `failed` of its
\* calls have ended in the catch block
ContinueReplay(r, last, failed) ==
    LET j == NextPost(r.captures, r.i + 1)
    IN  IF j <= Len(r.captures)
        THEN /\ replays' = (replays \ {r}) \cup
                     {[r EXCEPT !.i = j, !.lastSessionId = last, !.pc = "http",
                                !.calls = @ + 1, !.failed = failed]}
             /\ UNCHANGED <<tasks, results, storedAt, preSelfies>>
        ELSE FinishReplay([r EXCEPT !.lastSessionId = last])

\* proxyRequest resolves: res.on('end'), then the token extraction, then the
\* call waits 200 ms
ReplayResponse(r, body) ==
    /\ r \in replays /\ r.pc = "http"
    /\ replays' = (replays \ {r}) \cup
           {[r EXCEPT !.lastSessionId = ExtractSessionId(r.lastSessionId, body),
                      !.pc = "delay"]}
    /\ UNCHANGED <<relayVars, recVars, clockVars, launched, procVars>>

\* fault: a failed call ends the replay
ReplayFailureAborts(r) ==
    /\ r \in replays /\ r.pc = "http"
    /\ FinishReplay(r)
    /\ UNCHANGED <<phoneIpMap, phonePreselfieMap, captureBuffers, issuedIds, clockVars, launched, procVars>>

\* proxyRequest rejects (error or timeout): catch, log, next exchange
ReplayRequestFailed(r) ==
    /\ r \in replays /\ r.pc = "http"
    /\ ContinueReplay(r, r.lastSessionId, r.failed + 1)
    /\ UNCHANGED <<phoneIpMap, phonePreselfieMap, captureBuffers, issuedIds, clockVars, launched, procVars>>

\* the 200 ms timer fires
ReplayDelayDone(r) ==
    /\ r \in replays /\ r.pc = "delay"
    /\ ContinueReplay(r, r.lastSessionId, r.failed)
    /\ UNCHANGED <<phoneIpMap, phonePreselfieMap, captureBuffers, issuedIds, clockVars, launched, procVars>>

\* replayWithVideo (src/unnamed/part_001): session-create, then upload

\* sData.session_id || sData.id || sData.event_session_id, null if not JSON
CreatedSession(body) ==
    IF body.json THEN Or(body.session_id, Or(body.id, body.event_session_id)) ELSE ""

\* eventSessionId after the upload's response
UploadToken(last, body) ==
    IF body.json
    THEN LET a == IF body.event_session_id # "" THEN body.event_session_id ELSE last
             b == IF body.session_id # "" THEN body.session_id ELSE a
         IN  IF body.data_event_session_id # "" THEN body.data_event_session_id ELSE b
    ELSE IF body.event_session_id # "" THEN body.event_session_id ELSE last

\* the session-create call resolves: the upload call is issued
VideoSessionResponse(r, body) ==
    /\ r \in replays /\ r.pc = "session"
    /\ replays' = (replays \ {r}) \cup
           {[r EXCEPT !.lastSessionId = CreatedSession(body), !.pc = "upload",
                      !.calls = @ + 1]}
    /\ UNCHANGED <<relayVars, recVars, clockVars, launched, procVars>>

\* a call of replayWithVideo rejects (error or timeout): nothing catches it
\* inside the function, the replay ends by the exception (the caller's .catch
\* or try/catch answers it)
VideoRequestFailed(r) ==
    /\ r \in replays /\ r.pc \in {"session", "upload"}
    /\ replays' = replays \ {r}
    /\ UNCHANGED <<relayVars, recVars, clockVars, launched, procVars>>

\* the upload call resolves: statistics, return, and the caller's continuation
VideoUploadResponse(r, body) ==
    /\ r \in replays /\ r.pc = "upload"
    /\ LET done == [r EXCEPT !.lastSessionId = UploadToken(r.lastSessionId, body)]
       IN  /\ preSelfies' = UpdateStats(r.preselfieId)
           /\ replays' = replays \ {r}
           /\ IF ThenStoresResult(done)
              THEN /\ results' = Put(results, r.phone, InstantResultOf(done))
                   /\ tasks' = Delete(tasks, r.phone)
                   /\ storedAt' = Unstamp(Stamp("results", r.phone), "tasks", {r.phone})
              ELSE UNCHANGED <<tasks, results, storedAt>>
    /\ UNCHANGED <<phoneIpMap, phonePreselfieMap, captureBuffers, issuedIds, clockVars, launched, procVars>>

----------------------------------------------------------------------------
(* Capture and recordings *)

\* one recorded exchange (captureBuffers[captureId].requests.push({...}))
Exchange(method, path) == [method |-> method, path |-> path]

\* fault: the exchange is pushed to the array the saved recordings hold as well
ProxyResponseEndAliased(phone, method, path) ==
    IF IsCaptureKey(phone) /\ method = "POST"
    THEN LET old == IF phone \in DOMAIN captureBuffers THEN captureBuffers[phone]
                    ELSE [requests |-> <<>>, createdAt |-> now]
         IN  /\ Len(old.requests) < MaxCaptures
             /\ captureBuffers' = Put(captureBuffers, phone,
                    [old EXCEPT !.requests = Append(@, Exchange(method, path))])
             /\ preSelfies' = [id \in DOMAIN preSelfies |->
                    [preSelfies[id] EXCEPT !.captures = Append(@, Exchange(method, path))]]
             /\ UNCHANGED <<relayVars, phonePreselfieMap, issuedIds,
                            clockVars, replays, launched, procVars>>
    ELSE UNCHANGED vars

\* proxyRes.on('end') of a request proxied under `phone`: in capture mode the
\* exchange is appended (the buffer is created on the first one); otherwise the
\* response is piped through and no store changes.  Requests in flight hold no
\* store state, so the callback may run at any time.
ProxyResponseEnd(phone, method, path) ==
    IF IsCaptureKey(phone) /\ method = "POST"
    THEN LET old == IF phone \in DOMAIN captureBuffers THEN captureBuffers[phone]
                    ELSE [requests |-> <<>>, createdAt |-> now]
         IN  /\ Len(old.requests) < MaxCaptures
             /\ captureBuffers' = Put(captureBuffers, phone,
                    [old EXCEPT !.requests = Append(@, Exchange(method, path))])
             /\ UNCHANGED <<relayVars, preSelfies, phonePreselfieMap, issuedIds,
                            clockVars, replays, launched, procVars>>
    ELSE UNCHANGED vars

\* the two 400 answers of POST /api/preselfie/save
SaveValid(captureSession, label) ==
    /\ captureSession # "" /\ label # ""
    /\ captureSession \in DOMAIN captureBuffers
    /\ Len(captureBuffers[captureSession].requests) > 0

\* the answer of POST /api/preselfie/save
SaveResponse(captureSession, label) ==
    IF ~SaveValid(captureSession, label) THEN [status |-> 400, ok |-> FALSE, captureCount |-> 0]
    ELSE [status |-> 200, ok |-> TRUE,
          captureCount |-> Len(captureBuffers[captureSession].requests)]

\* fault: the count taken before the last exchange arrived
RecordingMiscounted(captured, phone) ==
    [phone |-> Trim(phone), captures |-> captured.requests,
     captureCount |-> Len(captured.requests) - 1, createdAt |-> now,
     lastUsed |-> 0, useCount |-> 0, status |-> "ready"]

\* the object stored in preSelfies[id] (label, id and sessionId are never read
\* by the relay or the replay engine)
RecordingOf(captured, phone) ==
    [phone |-> Trim(phone), captures |-> captured.requests,
     captureCount |-> Len(captured.requests), createdAt |-> now,
     lastUsed |-> 0, useCount |-> 0, status |-> "ready"]

\* fault: the capture buffer left in place
SaveKeepsBuffer(captureSession, label, phone, id) ==
    IF ~SaveValid(captureSession, label) THEN UNCHANGED vars
    ELSE /\ id \notin issuedIds
         /\ preSelfies' = Put(preSelfies, id,
                              RecordingOf(captureBuffers[captureSession], phone))
         /\ phonePreselfieMap' = IF phone # "" THEN Put(phonePreselfieMap, Trim(phone), id)
                                 ELSE phonePreselfieMap
         /\ issuedIds' = issuedIds \cup {id}
         /\ UNCHANGED <<relayVars, captureBuffers, clockVars, replays, launched, procVars>>

\* app.post('/api/preselfie/save')
\* (id is the random identifier the handler draws; a value is never drawn twice)
SavePreselfie(captureSession, label, phone, id) ==
    IF ~SaveValid(captureSession, label) THEN UNCHANGED vars
    ELSE /\ id \notin issuedIds
         /\ preSelfies' = Put(preSelfies, id,
                              RecordingOf(captureBuffers[captureSession], phone))
         /\ phonePreselfieMap' = IF phone # "" THEN Put(phonePreselfieMap, Trim(phone), id)
                                 ELSE phonePreselfieMap
         /\ captureBuffers' = Delete(captureBuffers, captureSession)
         /\ issuedIds' = issuedIds \cup {id}
         /\ UNCHANGED <<relayVars, clockVars, replays, launched, procVars>>

\* app.post('/api/preselfie/assign')
AssignResponse(id, phone) ==
    IF id = "" \/ phone = "" THEN 400
    ELSE IF id \notin DOMAIN preSelfies THEN 404
    ELSE 200

\* fault: the binding is written before the recording is looked up
AssignUnchecked(id, phone) ==
    IF id = "" \/ phone = "" THEN UNCHANGED vars
    ELSE /\ phonePreselfieMap' = Put(phonePreselfieMap, Trim(phone), id)
         /\ preSelfies' = [x \in DOMAIN preSelfies |->
                IF x = id THEN [preSelfies[x] EXCEPT !.phone = Trim(phone)] ELSE preSelfies[x]]
         /\ UNCHANGED <<relayVars, captureBuffers, issuedIds, clockVars, replays, launched, procVars>>

AssignPreselfie(id, phone) ==
    IF AssignResponse(id, phone) # 200 THEN UNCHANGED vars
    ELSE /\ phonePreselfieMap' = Put(phonePreselfieMap, Trim(phone), id)
         /\ preSelfies' = [preSelfies EXCEPT ![id].phone = Trim(phone)]
         /\ UNCHANGED <<relayVars, captureBuffers, issuedIds, clockVars, replays, launched, procVars>>

\* app.post('/api/preselfie/unassign')
UnassignPreselfie(phone) ==
    IF phone = "" THEN UNCHANGED vars
    ELSE /\ phonePreselfieMap' = Delete(phonePreselfieMap, Trim(phone))
         /\ UNCHANGED <<relayVars, preSelfies, captureBuffers, issuedIds, clockVars,
                        replays, launched, procVars>>

\* fault: a recording removed without its bindings
KeepBindings(m, ids) == m

\* for (const ph in phonePreselfieMap) if (phonePreselfieMap[ph] === id) delete ...
WithoutBindingsTo(m, ids) == [ph \in {x \in DOMAIN m : m[x] \notin ids} |-> m[ph]]

\* app.delete('/api/preselfie/:id')
DeletePreselfie(id) ==
    IF id \notin DOMAIN preSelfies THEN UNCHANGED vars
    ELSE /\ phonePreselfieMap' = WithoutBindingsTo(phonePreselfieMap, {id})
         /\ preSelfies' = Delete(preSelfies, id)
         /\ UNCHANGED <<relayVars, captureBuffers, issuedIds, clockVars, replays, launched, procVars>>

\* app.post('/api/replay/:id'): 404, 400, or await replayPreselfie(...)
ManualReplayRefused(id, userId, transactionId) ==
    id \notin DOMAIN preSelfies \/ userId = "" \/ transactionId = ""

ManualReplay(id, userId, transactionId, realIp) ==
    IF ManualReplayRefused(id, userId, transactionId) THEN UNCHANGED vars
    ELSE /\ launched < MaxReplays
         /\ StartReplay(id, userId, realIp, "", TRUE, FALSE)
         /\ UNCHANGED <<relayVars, phonePreselfieMap, captureBuffers, issuedIds, clockVars, procVars>>

----------------------------------------------------------------------------
(* The proxy: app.all('/oz-proxy/:phone/*') *)

\* the server files: src/server.js, src/unnamed/part_001 (video), part_002 (relay)
Variants == {"capture", "video", "relay"}

\* a hostname as its labels; the empty one stands for a missing or unparsable target
AllowedDomain == <<"ozforensics", "com">>
Hosts ==
    {<<"api", "ozforensics", "com">>, <<"ozforensics", "com", "evil", "net">>,
     <<"evil", "net">>}
Targets == Hosts \cup {<<>>}
ProxyPaths == {"/p1", "/plugin_liveness"}
UpstreamStatuses == {200, 404, 500}
\* bytes of a response body: the SDK's read of location.href, the literal that
\* replaces it, any other byte
HrefRead == "X.f_.href"
HrefLiteral == "'https://algeria.blsspainglobal.com/dza/appointment/LivenessRequest'"
\* upstream bodies as the chunks they arrive in
ProxyBodies == {<<>>, <<<<"b1">>>>}
Bodies == ProxyBodies \cup {<<<<"b1">>, <<HrefRead>>>>, <<<<"b1", HrefRead>>>>}

\* String.prototype.includes, on labels
Includes(h, d) ==
    \E i \in 1..(Len(h) - Len(d) + 1) : SubSeq(h, i, i + Len(d) - 1) = d
\* h is the domain d or a subdomain of it
HasSuffix(h, d) ==
    Len(h) >= Len(d) /\ SubSeq(h, Len(h) - Len(d) + 1, Len(h)) = d

\* the status the handler answers with before any outbound call, 0 if none
ProxyAdmission(host) ==
    IF host = <<>> THEN 400
    ELSE IF ~Includes(host, AllowedDomain) THEN 403
    ELSE 0

\* fullPath.includes('plugin_liveness')
IsSdk(path) == path = "/plugin_liveness"
\* isCapture && captureId && req.method === 'POST' (part_002 has no capture mode)
Captures(q) == variant # "relay" /\ IsCaptureKey(q.phone) /\ q.method = "POST"
\* the response is collected and written on 'end' instead of piped
Buffered(q) ==
    \/ Captures(q)
    \/ variant = "video" /\ IsSdk(q.path) /\ q.method = "GET"
\* if (!res.headersSent) in the error and timeout handlers (part_002 has none)
Guarded == variant # "relay"

\* one inbound request with its single https.request; sent is the status the
\* caller has received (0: none), rest the chunks the upstream has yet to
\* deliver, kept the chunks a buffering branch has collected, got the bytes
\* the caller has received; body (the upstream's whole body) and overtaken are
\* history
NewProxied(phone, method, path) ==
    [phone |-> phone, method |-> method, path |-> path,
     pc |-> "wait", upstream |-> 0, sent |-> 0, destroyed |-> FALSE,
     rest |-> <<>>, kept |-> <<>>, got |-> <<>>, body |-> <<>>,
     overtaken |-> FALSE]

WithoutRequest(i) == SubSeq(proxied, 1, i - 1) \o SubSeq(proxied, i + 1, Len(proxied))

\* the handler up to proxyReq.end(): answered at once with ProxyAdmission(host),
\* or one outbound call made
ProxyRequest(phone, method, host, path) ==
    /\ Len(proxied) < MaxProxied
    /\ proxied' = IF ProxyAdmission(host) # 0 THEN proxied
                  ELSE Append(proxied, NewProxied(phone, method, path))
    /\ UNCHANGED <<relayVars, recVars, clockVars, replays, launched, variant, escaped>>

\* the https.request callback: the upstream's status line and headers are in,
\* its body will come in the chunks of `body`
ProxyResponse(i, status, body) ==
    /\ i \in DOMAIN proxied
    /\ proxied[i].pc = "wait" /\ ~proxied[i].destroyed
    /\ proxied' = [proxied EXCEPT ![i].upstream = status, ![i].pc = "body",
                                  ![i].rest = body, ![i].body = body]
    /\ UNCHANGED <<relayVars, recVars, clockVars, replays, launched, variant, escaped>>

\* fault: the proxy answers 200 whatever the upstream said
ForwardedOk(q) == 200

\* res.status(proxyRes.statusCode)
ForwardedStatus(q) == q.upstream

\* proxyRes 'data': a buffering branch keeps the chunk (resChunks.push(c),
\* sdkChunks.push(c)); proxyRes.pipe(res) passes it on, and with the first one
\* the status line and headers go out
ProxyResData(i) ==
    /\ i \in DOMAIN proxied
    /\ proxied[i].pc = "body" /\ ~proxied[i].destroyed /\ proxied[i].rest # <<>>
    /\ proxied' =
           IF Buffered(proxied[i])
           THEN [proxied EXCEPT ![i].kept = Append(@, Head(proxied[i].rest)),
                                ![i].rest = Tail(@)]
           ELSE [proxied EXCEPT ![i].got = @ \o Head(proxied[i].rest),
                                ![i].rest = Tail(@),
                                ![i].sent = IF @ = 0 THEN ForwardedStatus(proxied[i])
                                            ELSE @]
    /\ UNCHANGED <<relayVars, recVars, clockVars, replays, launched, variant, escaped>>

\* history only: the requests of the same session that arrived before request i
\* and are still in flight have been overtaken
Overtaking(i) ==
    [j \in DOMAIN proxied |->
        IF j < i /\ proxied[j].phone = proxied[i].phone /\ Captures(proxied[j])
        THEN [proxied[j] EXCEPT !.overtaken = TRUE] ELSE proxied[j]]

\* captureBuffers[captureId].requests.push({...}), the buffer made if absent
CaptureAppend(q) ==
    LET old == IF q.phone \in DOMAIN captureBuffers THEN captureBuffers[q.phone]
               ELSE [requests |-> <<>>, createdAt |-> now]
    IN  Put(captureBuffers, q.phone,
            [old EXCEPT !.requests = Append(@, Exchange(q.method, q.path))])

\* the status written on proxyRes 'end' (0: none, the piped response has its own)
EndStatus(q) == IF q.sent = 0 THEN ForwardedStatus(q) ELSE 0

RECURSIVE Concat(_)
\* fault: only the last chunk is kept
ConcatLast(chunks) == IF chunks = <<>> THEN <<>> ELSE chunks[Len(chunks)]

\* Buffer.concat(chunks)
Concat(chunks) == IF chunks = <<>> THEN <<>> ELSE Head(chunks) \o Concat(Tail(chunks))

\* sdkCode.replace('X.f_.href', "'https://...'"): the first occurrence of the
\* pattern (byte HrefRead here) replaced by the literal (byte HrefLiteral)
Patch(bytes) ==
    IF \E n \in DOMAIN bytes : bytes[n] = HrefRead
    THEN LET n == CHOOSE n \in DOMAIN bytes :
                      bytes[n] = HrefRead /\ \A m \in 1..(n - 1) : bytes[m] # HrefRead
         IN  [bytes EXCEPT ![n] = HrefLiteral]
    ELSE bytes

\* the bytes written on proxyRes 'end': res.end(resBuf), res.end(patchedBuf),
\* or nothing more on the piped response
EndBody(q) ==
    IF Captures(q) THEN Concat(q.kept)
    ELSE IF Buffered(q) THEN Patch(Concat(q.kept))
    ELSE <<>>

\* what the caller holds once the response has ended
DeliveredStatus(q) == IF q.sent # 0 THEN q.sent ELSE EndStatus(q)
Received(q) == q.got \o EndBody(q)

\* proxyRes 'end': the capture branch appends and answers, the script branch
\* answers, the piped response ends
ProxyResEnd(i) ==
    /\ i \in DOMAIN proxied
    /\ proxied[i].pc = "body" /\ ~proxied[i].destroyed /\ proxied[i].rest = <<>>
    /\ IF Captures(proxied[i])
       THEN /\ proxied[i].phone \in DOMAIN captureBuffers =>
                   Len(captureBuffers[proxied[i].phone].requests) < MaxProxied
            /\ captureBuffers' = CaptureAppend(proxied[i])
            /\ proxied' = [j \in 1..(Len(proxied) - 1) |->
                              IF j < i THEN Overtaking(i)[j] ELSE proxied[j + 1]]
       ELSE /\ proxied' = WithoutRequest(i)
            /\ UNCHANGED captureBuffers
    /\ UNCHANGED <<relayVars, preSelfies, phonePreselfieMap, issuedIds, clockVars,
                   replays, launched, variant, escaped>>

\* fault: the handlers only log
HandlerSilent(q, status) == 0

\* the status an error or timeout handler writes (0: none)
HandlerStatus(q, status) == IF q.sent = 0 THEN status ELSE 0
\* res.status(...).json(...) after the response has begun throws
HandlerThrows(q) == q.sent # 0 /\ ~Guarded

Escapes(q) == IF HandlerThrows(q) THEN escaped \cup {"proxy"} ELSE escaped

\* proxyReq.on('error'): the socket failed; answers HandlerStatus(q, 502)
ProxyReqError(i) ==
    /\ i \in DOMAIN proxied /\ ~proxied[i].destroyed
    /\ escaped' = Escapes(proxied[i])
    /\ proxied' = WithoutRequest(i)
    /\ UNCHANGED <<relayVars, recVars, clockVars, replays, launched, variant>>

\* proxyReq.on('timeout'): the socket was idle for the timeout; proxyReq.destroy(),
\* then answers HandlerStatus(q, 504)
ProxyReqTimeout(i) ==
    /\ i \in DOMAIN proxied /\ ~proxied[i].destroyed
    /\ escaped' = Escapes(proxied[i])
    /\ proxied' = [proxied EXCEPT ![i].destroyed = TRUE,
                                  ![i].sent = IF @ = 0 THEN HandlerStatus(proxied[i], 504)
                                              ELSE @]
    /\ UNCHANGED <<relayVars, recVars, clockVars, replays, launched, variant>>

\* the 'error' event proxyReq.destroy() raises (always while the response is
\* awaited; once it has begun the runtime may close the request silently)
ProxyReqDestroyed(i, emits) ==
    /\ i \in DOMAIN proxied /\ proxied[i].destroyed
    /\ proxied[i].pc = "wait" => emits
    /\ escaped' = IF emits THEN Escapes(proxied[i]) ELSE escaped
    /\ proxied' = WithoutRequest(i)
    /\ UNCHANGED <<relayVars, recVars, clockVars, replays, launched, variant>>

InitProxy ==
    /\ now = StartTime /\ ticks = 0
    /\ tasks = Empty /\ results = Empty /\ phoneIpMap = Empty
    /\ preSelfies = Empty /\ phonePreselfieMap = Empty /\ captureBuffers = Empty
    /\ replays = {} /\ issuedIds = {} /\ launched = 0
    /\ storedAt = [tasks |-> Empty, results |-> Empty, ips |-> Empty]
    /\ proxied = <<>>
    /\ variant \in Variants
    /\ escaped = {}

NextProxy ==
    \/ \E phone \in {"k1"} \cup Sessions, m \in Methods, host \in Targets :
           \E path \in ProxyPaths : ProxyRequest(phone, m, host, path)
    \/ \E i \in DOMAIN proxied, status \in UpstreamStatuses, body \in ProxyBodies :
           ProxyResponse(i, status, body)
    \/ \E i \in DOMAIN proxied : ProxyResData(i)
    \/ \E i \in DOMAIN proxied : ProxyResEnd(i)
    \/ \E i \in DOMAIN proxied : ProxyReqError(i)
    \/ \E i \in DOMAIN proxied : ProxyReqTimeout(i)
    \/ \E i \in DOMAIN proxied, emits \in BOOLEAN : ProxyReqDestroyed(i, emits)

SpecProxy == InitProxy /\ [][NextProxy]_vars

\* Two requests and the bodies of their responses: what the caller receives
BodyPhones == {"k1"} \cup Sessions
ApiHost == <<"api", "ozforensics", "com">>

NextBody ==
    \/ \E phone \in BodyPhones, m \in Methods, path \in ProxyPaths :
           ProxyRequest(phone, m, ApiHost, path)
    \/ \E i \in DOMAIN proxied, status \in {200, 500}, body \in Bodies :
           ProxyResponse(i, status, body)
    \/ \E i \in DOMAIN proxied : ProxyResData(i)
    \/ \E i \in DOMAIN proxied : ProxyResEnd(i)

SpecBody == InitProxy /\ [][NextBody]_vars

----------------------------------------------------------------------------
(* Clock and sweep *)

\* now - (x.timestamp || 0) > max
Expired(stamp, max) == now - OrNum(stamp, 0) > max

ExpiredTasks == {p \in DOMAIN tasks : Expired(tasks[p].timestamp, MAX_TASK)}
ExpiredResults == {p \in DOMAIN results : Expired(results[p].timestamp, MAX_TASK)}
ExpiredPreSelfies == {id \in DOMAIN preSelfies : Expired(preSelfies[id].createdAt, MAX_PRESELFIE)}
ExpiredBuffers == {cs \in DOMAIN captureBuffers : Expired(captureBuffers[cs].createdAt, MAX_TASK)}

\* the setInterval callback
Sweep ==
    /\ tasks' = [p \in DOMAIN tasks \ ExpiredTasks |-> tasks[p]]
    /\ phoneIpMap' = [p \in DOMAIN phoneIpMap \ ExpiredTasks |-> phoneIpMap[p]]
    /\ results' = [p \in DOMAIN results \ ExpiredResults |-> results[p]]
    /\ phonePreselfieMap' = WithoutBindingsTo(phonePreselfieMap, ExpiredPreSelfies)
    /\ preSelfies' = [id \in DOMAIN preSelfies \ ExpiredPreSelfies |-> preSelfies[id]]
    /\ captureBuffers' = [cs \in DOMAIN captureBuffers \ ExpiredBuffers |-> captureBuffers[cs]]
    /\ storedAt' = Unstamp(Unstamp(Unstamp(storedAt, "tasks", ExpiredTasks),
                                    "results", ExpiredResults), "ips", ExpiredTasks)
    /\ UNCHANGED <<issuedIds, clockVars, replays, launched, procVars>>

\* time passes
Tick(d) ==
    /\ ticks < MaxTicks
    /\ now' = now + d
    /\ ticks' = ticks + 1
    /\ UNCHANGED <<relayVars, recVars, replays, launched, procVars>>

----------------------------------------------------------------------------
(* The server *)

Init ==
    /\ now = StartTime
    /\ ticks = 0
    /\ tasks = Empty
    /\ results = Empty
    /\ phoneIpMap = Empty
    /\ preSelfies = Empty
    /\ phonePreselfieMap = Empty
    /\ captureBuffers = Empty
    /\ replays = {}
    /\ issuedIds = {}
    /\ launched = 0
    /\ storedAt = [tasks |-> Empty, results |-> Empty, ips |-> Empty]
    /\ proxied = <<>>
    /\ variant = "capture"
    /\ escaped = {}

(* The server with one client key, at one instant: every handler, the replay
   engine and the sweep.  Entries grow old here only through the timestamp a
   client sends; SpecClock lets time pass. *)
ClientKeys == {"k1"}
ClientTaskBodies == TaskBodiesOver({"u1"}, {0, OldStamp})
ClientResultBodies == ResultBodiesOver({}, {0})

Next ==
    \/ \E b \in ClientTaskBodies : SubmitTask("k1", b)
    \/ PollTask("k1")
    \/ \E b \in ClientResultBodies : PostResult("k1", b)
    \/ PollResult("k1")
    \/ Clear("k1")
    \/ \E ip \in Ips \cup {""} : OzPage("k1", ip)
    \/ \E r \in replays, body \in {NoTokenBody, TokenBody} : ReplayResponse(r, body)
    \/ \E r \in replays : ReplayRequestFailed(r)
    \/ \E r \in replays : ReplayDelayDone(r)
    \/ \E k \in {"k1"} \cup Sessions, m \in Methods : ProxyResponseEnd(k, m, "/p1")
    \/ \E cs \in Sessions, l \in Labels \cup {""}, k \in {"k1", ""} : 
           \E id \in RecordingIds : SavePreselfie(cs, l, k, id)
    \/ \E id \in RecordingIds \cup {""}, k \in {" k1 ", ""} : AssignPreselfie(id, k)
    \/ \E k \in {"k1", ""} : UnassignPreselfie(k)
    \/ \E id \in RecordingIds : DeletePreselfie(id)
    \/ \E id \in RecordingIds, u \in {"u1", ""} : ManualReplay(id, u, "t1", "")
    \/ Sweep

Spec == Init /\ [][Next]_vars

(* The server left to itself: no clear, no sweep and no deletion of a
   recording.  Every upstream call of a replay resolves or rejects (the request
   carries a 30 s timeout) and every 200 ms timer fires, hence the fairness. *)
NextLive ==
    \/ \E b \in ClientTaskBodies : SubmitTask("k1", b)
    \/ PollTask("k1")
    \/ \E b \in ClientResultBodies : PostResult("k1", b)
    \/ PollResult("k1")
    \/ \E r \in replays, body \in {NoTokenBody, TokenBody} : ReplayResponse(r, body)
    \/ \E r \in replays : ReplayRequestFailed(r)
    \/ \E r \in replays : ReplayDelayDone(r)
    \/ \E cs \in Sessions, m \in Methods : ProxyResponseEnd(cs, m, "/p1")
    \/ \E cs \in Sessions, id \in RecordingIds : SavePreselfie(cs, "L", "k1", id)

ReplayCallSettles ==
    \E r \in replays :
        \/ ReplayRequestFailed(r)
        \/ \E body \in {NoTokenBody, TokenBody} : ReplayResponse(r, body)

SpecLive ==
    /\ Init /\ [][NextLive]_vars
    /\ WF_vars(ReplayCallSettles)
    /\ WF_vars(\E r \in replays : ReplayDelayDone(r))

(* Two client keys and two users on a server with one recording: submissions,
   posted results, clears, the capture and the save that binds the recording to
   the first key, the binding undone, and the replays the submissions launch *)
PairTaskBodies ==
    {b \in TaskBodiesOver({"u1", "u2"}, {0}) : b.userId # "" /\ b.transactionId # ""}
PairResultBodies == {b \in ResultBodiesOver({}, {0}) : b.realIp = ""}

NextPair ==
    \/ \E k \in Keys, b \in PairTaskBodies : SubmitTask(k, b)
    \/ \E k \in Keys, b \in PairResultBodies : PostResult(k, b)
    \/ \E k \in Keys : Clear(k)
    \/ \E r \in replays, body \in {NoTokenBody, TokenBody} : ReplayResponse(r, body)
    \/ \E r \in replays : ReplayRequestFailed(r)
    \/ \E r \in replays : ReplayDelayDone(r)
    \/ \E cs \in Sessions : ProxyResponseEnd(cs, "POST", "/p1")
    \/ \E cs \in Sessions, id \in RecordingIds : SavePreselfie(cs, "L", "k1", id)
    \/ UnassignPreselfie("k1")

SpecPair == Init /\ [][NextPair]_vars

(* A recording that has been saved, bound to the first key and replayed up to
   MaxUses times: submissions for either key, the replays they launch, bindings
   made and undone, and the recording's deletion *)
MaxUses == 2

InitAgain ==
    /\ now = StartTime /\ ticks = 0
    /\ tasks = Empty /\ results = Empty /\ phoneIpMap = Empty
    /\ \E n \in 0..MaxUses :
           preSelfies = [id \in RecordingIds |->
               [RecordingOf([requests |-> <<Exchange("POST", "/p1")>>, createdAt |-> now], "k1")
                    EXCEPT !.useCount = n, !.lastUsed = IF n = 0 THEN 0 ELSE now]]
    /\ phonePreselfieMap = [k \in {"k1"} |-> "ps_1"]
    /\ captureBuffers = Empty
    /\ replays = {} /\ issuedIds = RecordingIds /\ launched = 0
    /\ storedAt = [tasks |-> Empty, results |-> Empty, ips |-> Empty]
    /\ proxied = <<>>
    /\ variant = "capture"
    /\ escaped = {}

NextAgain ==
    \/ \E k \in Keys, b \in ClientTaskBodies : SubmitTask(k, b)
    \/ \E r \in replays, body \in {NoTokenBody, TokenBody} : ReplayResponse(r, body)
    \/ \E r \in replays : ReplayRequestFailed(r)
    \/ \E r \in replays : ReplayDelayDone(r)
    \/ \E id \in RecordingIds, k \in Keys : AssignPreselfie(id, k)
    \/ \E k \in Keys : UnassignPreselfie(k)
    \/ \E id \in RecordingIds : DeletePreselfie(id)

SpecAgain == InitAgain /\ [][NextAgain]_vars

(* The relay, the sweep and the clock, two client keys, no recordings: time
   passes in steps of one sweep interval or of one task lifetime *)
\* the relay under bodies whose fields may be numbers
LooseTaskBodies == TaskBodiesOver({"u1"} \cup NonStrings, {0})
LooseResultBodies ==
    [event_session_id : Tokens \cup NonStrings \cup {""}, status : {""},
     realIp : Ips \cup {""}, timestamp : {0}]

NextLoose ==
    \/ \E k \in Keys, b \in LooseTaskBodies : SubmitTask(k, b)
    \/ \E k \in Keys, b \in LooseResultBodies : PostResult(k, b)
    \/ \E k \in Keys : Clear(k)
    \/ \E k \in Keys : PollTask(k)
    \/ \E k \in Keys : PollResult(k)

SpecLoose == Init /\ [][NextLoose]_vars

(* The stores left alone: requests arrive until the clock moves, by more than
   every max-age, and from then on only the sweep runs, every five minutes *)
LongTime == MAX_PRESELFIE + SweepInterval

NextQuiet ==
    \/ ticks = 0 /\ \E b \in TaskBodiesOver({"u1"}, {0}) : SubmitTask("k1", b)
    \/ ticks = 0 /\ \E b \in ResultBodiesOver({}, {0}) : PostResult("k1", b)
    \/ ticks = 0 /\ \E ip \in Ips : OzPage("k1", ip)
    \/ ticks = 0 /\ \E cs \in Sessions : ProxyResponseEnd(cs, "POST", "/p1")
    \/ ticks = 0 /\ \E cs \in Sessions, id \in RecordingIds : SavePreselfie(cs, "L", "", id)
    \/ ticks = 0 /\ \E id \in RecordingIds : AssignPreselfie(id, "k2")
    \/ Tick(LongTime)
    \/ Sweep

SpecQuiet == Init /\ [][NextQuiet]_vars /\ WF_vars(Sweep) /\ WF_vars(Tick(LongTime))

NextClock ==
    \/ \E k \in Keys, b \in TaskBodiesOver({"u1"}, {0, OldStamp}) : SubmitTask(k, b)
    \/ \E k \in Keys : PollTask(k)
    \/ \E k \in Keys, b \in ResultBodiesOver({}, {0}) : PostResult(k, b)
    \/ \E k \in Keys : PollResult(k)
    \/ \E k \in Keys : Clear(k)
    \/ \E k \in Keys : OzPage(k, "ip1")
    \/ Sweep
    \/ \E d \in {SweepInterval, MAX_TASK} : Tick(d)

SpecClock == Init /\ [][NextClock]_vars

(* The recording store over a week: captures, two recordings, two client
   keys, bindings made and undone, manual replays, explicit deletion, the sweep, and a clock
   that moves by a sweep interval or past a recording's lifetime *)
TwoRecordingIds == RecordingIds \cup {"ps_2"}

NextRec ==
    \/ \E cs \in Sessions, m \in Methods : ProxyResponseEnd(cs, m, "/p1")
    \/ \E cs \in Sessions, k \in Keys \cup {""}, id \in TwoRecordingIds :
           SavePreselfie(cs, "L", k, id)
    \/ \E id \in TwoRecordingIds, k \in PaddedKeys : AssignPreselfie(id, k)
    \/ \E k \in Keys : UnassignPreselfie(k)
    \/ \E id \in TwoRecordingIds : DeletePreselfie(id)
    \/ \E id \in TwoRecordingIds : ManualReplay(id, "u1", "t1", "")
    \/ \E r \in replays, body \in {NoTokenBody, TokenBody} : ReplayResponse(r, body)
    \/ \E r \in replays : ReplayDelayDone(r)
    \/ Sweep
    \/ \E d \in {SweepInterval, MAX_PRESELFIE + SweepInterval} : Tick(d)

SpecRec == Init /\ [][NextRec]_vars

\* Capture and save: POST and GET requests proxied under a capture session, up
\* to MaxProxied in flight, and the save route
SaveSessions == Sessions \cup {""}
SaveLabels == Labels \cup {""}
SavePhones == {"", "k1", " k1 "}

NextSave ==
    \/ \E cs \in Sessions, m \in Methods :
           ProxyRequest(cs, m, <<"api", "ozforensics", "com">>, "/p1")
    \/ \E i \in DOMAIN proxied : ProxyResponse(i, 200, <<>>)
    \/ \E i \in DOMAIN proxied : ProxyResEnd(i)
    \/ \E cs \in SaveSessions, label \in SaveLabels, phone \in SavePhones :
           \E id \in TwoRecordingIds : SavePreselfie(cs, label, phone, id)

SpecSave == Init /\ [][NextSave]_vars

\* the object POST /api/preselfie/save-video stores (src/unnamed/part_001)
VideoRecording(phone) ==
    [phone |-> Trim(phone), videoData |-> "AAAA", captureCount |-> 1, createdAt |-> now,
     lastUsed |-> 0, useCount |-> 0, status |-> "ready"]

(* replayPreselfie(...) called on a recording of any exchanges or of a video, up
   to MaxOverlap calls at a time.  (The capture branch of this server records
   POST exchanges only; the loop's own test is what skips the others.) *)
MaxRecorded == 3
MaxOverlap == 2

Recorded ==
    UNION {[1..n -> {Exchange(m, "/p1") : m \in Methods}] : n \in 1..MaxRecorded}

InitReplay ==
    /\ now = StartTime /\ ticks = 0
    /\ tasks = Empty /\ results = Empty /\ phoneIpMap = Empty
    /\ \/ \E captures \in Recorded :
              preSelfies = [id \in RecordingIds |->
                  RecordingOf([requests |-> captures, createdAt |-> now], "")]
       \/ preSelfies = [id \in RecordingIds |-> VideoRecording("")]
    /\ phonePreselfieMap = Empty /\ captureBuffers = Empty
    /\ replays = {} /\ issuedIds = RecordingIds /\ launched = 0
    /\ storedAt = [tasks |-> Empty, results |-> Empty, ips |-> Empty]
    /\ proxied = <<>>
    /\ variant = "capture"
    /\ escaped = {}

\* the upstream's answers to a replayed call: no token, a token under
\* event_session_id, a token under session_id
ReplayBodies == {NoTokenBody, TokenBody, SessionBody}

\* replayPreselfie(id, userId, transactionId, realIp, '') called
CallReplay(id, userId, realIp) ==
    /\ launched < MaxOverlap
    /\ StartReplay(id, userId, realIp, "", TRUE, FALSE)
    /\ UNCHANGED <<relayVars, phonePreselfieMap, captureBuffers, issuedIds, clockVars, procVars>>

NextReplay ==
    \/ \E id \in RecordingIds : CallReplay(id, "u1", "")
    \/ \E r \in replays, body \in ReplayBodies : ReplayResponse(r, body)
    \/ \E r \in replays : ReplayRequestFailed(r)
    \/ \E r \in replays : ReplayDelayDone(r)
    \/ \E r \in replays, body \in {NoTokenBody, SessionBody} : VideoSessionResponse(r, body)
    \/ \E r \in replays, body \in {NoTokenBody, TokenBody} : VideoUploadResponse(r, body)
    \/ \E r \in replays : VideoRequestFailed(r)
    \/ Tick(SweepInterval)

SpecReplay == InitReplay /\ [][NextReplay]_vars

\* every outbound call of a replay settles (response, error, or the 30 s timeout
\* of proxyRequest) and every 200 ms timer fires
SpecReplayLive ==
    /\ InitReplay /\ [][NextReplay]_vars
    /\ WF_vars(ReplayCallSettles)
    /\ WF_vars(\E r \in replays : ReplayDelayDone(r))

----------------------------------------------------------------------------
(* The Puppeteer server (src/unnamed/part_000): the same relay with a video
   recording replayed through a headless browser.  Its stores are tasks,
   results, preSelfies and phoneMap (held in phonePreselfieMap here); it has no
   ip map, no capture buffers, no sweep, and no route that posts a result,
   polls a task or deletes a recording. *)

\* what a page may send as `video`: nothing, a data URL, bare base64
Videos == {"", "data:video/webm;base64,AAAA", "AAAA"}

\* video.replace(/^data:video\/\w+;base64,/, '')
StripDataUrl(video) ==
    IF video = "data:video/webm;base64," THEN ""
    ELSE IF video = "data:video/webm;base64,AAAA" THEN "AAAA"
    ELSE video

\* app.post('/api/preselfie/save-video')
V11_SaveVideo(label, phone, video, id) ==
    IF video = "" THEN UNCHANGED vars
    ELSE /\ id \notin issuedIds
         /\ preSelfies' = Put(preSelfies, id,
                [phone |-> phone, videoB64 |-> StripDataUrl(video), createdAt |-> now,
                 useCount |-> 0, status |-> "ready"])
         /\ phonePreselfieMap' = IF phone # "" THEN Put(phonePreselfieMap, phone, id)
                                 ELSE phonePreselfieMap
         /\ issuedIds' = issuedIds \cup {id}
         /\ UNCHANGED <<relayVars, captureBuffers, clockVars, replays, launched, procVars>>

\* const ps = psId && preSelfies[psId];  if (ps && ps.videoB64)
V11_InstantReady(phone) ==
    /\ phone \in DOMAIN phonePreselfieMap
    /\ phonePreselfieMap[phone] \in DOMAIN preSelfies
    /\ preSelfies[phonePreselfieMap[phone]].videoB64 # ""

\* the JSON the handler answers POST /task/:phone with (no field is required)
V11_SubmitResponse(phone, b) == [status |-> 200, ok |-> TRUE, instant |-> V11_InstantReady(phone)]

\* app.post('/task/:phone'); videoReady is whether replayWithPuppeteer finds (or
\* can convert) the video file: without it the call throws before it awaits
V11_SubmitTask(phone, b, videoReady) ==
    /\ V11_InstantReady(phone) => launched < V11_MaxReplays
    /\ tasks' = Put(tasks, phone,
           [userId |-> b.userId, transactionId |-> b.transactionId,
            realIp |-> b.realIp, createdAt |-> now])
    /\ IF V11_InstantReady(phone)
       THEN /\ launched' = launched + 1
            /\ replays' = IF videoReady
                          THEN replays \cup {[rid |-> launched + 1, phone |-> phone,
                                              preselfieId |-> phonePreselfieMap[phone]]}
                          ELSE replays
       ELSE UNCHANGED <<replays, launched>>
    /\ UNCHANGED <<results, phoneIpMap, storedAt, recVars, clockVars, procVars>>

\* what page.evaluate resolves with: window.__ozResult or {error: 'timeout'}
V11_PageResults ==
    {[event_session_id |-> "s2", error |-> ""], [event_session_id |-> "", error |-> "timeout"]}

\* the object stored in results[phone] after page.evaluate
V11_ResultOf(result) ==
    IF result.event_session_id # ""
    THEN [event_session_id |-> result.event_session_id, error |-> "",
          instant |-> TRUE, timestamp |-> now]
    ELSE [event_session_id |-> "", error |-> Or(result.error, "unknown"),
          instant |-> TRUE, timestamp |-> now]

\* replayWithPuppeteer from page.evaluate's result to its end
V11_ReplayResult(r, result) ==
    /\ r \in replays
    /\ results' = Put(results, r.phone, V11_ResultOf(result))
    /\ preSelfies' = IF result.event_session_id # "" /\ r.preselfieId \in DOMAIN preSelfies
                     THEN [preSelfies EXCEPT ![r.preselfieId].useCount = @ + 1,
                                             ![r.preselfieId].status = "used"]
                     ELSE preSelfies
    /\ replays' = replays \ {r}
    /\ UNCHANGED <<tasks, phoneIpMap, storedAt, phonePreselfieMap, captureBuffers,
                   issuedIds, clockVars, launched, procVars>>

\* puppeteer.launch, page.goto or page.evaluate throws: .catch logs
V11_ReplayThrows(r) ==
    /\ r \in replays
    /\ replays' = replays \ {r}
    /\ UNCHANGED <<relayVars, recVars, clockVars, launched, procVars>>

\* app.get('/result/:phone')
V11_pollResult(phone) ==
    IF phone \in DOMAIN results /\ results[phone].event_session_id # ""
    THEN [ok |-> TRUE, result |-> <<results[phone]>>]
    ELSE [ok |-> FALSE, result |-> <<>>]

V11_PollResult(phone) == UNCHANGED vars

\* app.delete('/clear/:phone')
V11_Clear(phone) ==
    /\ tasks' = Delete(tasks, phone)
    /\ results' = Delete(results, phone)
    /\ UNCHANGED <<phoneIpMap, storedAt, recVars, clockVars, replays, launched, procVars>>

NextV11 ==
    \/ \E l \in Labels, k \in Keys \cup {""}, v \in Videos, id \in RecordingIds :
           V11_SaveVideo(l, k, v, id)
    \/ \E k \in Keys, b \in TaskBodiesOver(UserIds, {0}), ready \in BOOLEAN :
           V11_SubmitTask(k, b, ready)
    \/ \E r \in replays, result \in V11_PageResults : V11_ReplayResult(r, result)
    \/ \E r \in replays : V11_ReplayThrows(r)
    \/ \E k \in Keys : V11_PollResult(k)
    \/ \E k \in Keys : V11_Clear(k)

SpecV11 == Init /\ [][NextV11]_vars

----------------------------------------------------------------------------
(* Properties *)

Absent(field) == [ok |-> FALSE] @@ (field :> <<>>)

\* C1: in every reachable state no client key holds both a task and a result.
C1_AtMostOneOfTaskAndResult ==
    \A k \in Keys : ~(k \in DOMAIN tasks /\ k \in DOMAIN results)

\* C2: right after a POST /result/:phone with a non-empty token, polling the
\* task finds nothing and polling the result finds a result carrying that
\* token, whatever the state before.
C2_PostResultRetiresTask ==
    [][\A k \in ClientKeys, b \in ClientResultBodies :
          (b.event_session_id # "" /\ PostResult(k, b)) =>
              /\ pollTask(k)' = Absent("task")
              /\ pollResult(k)'.ok
              /\ pollResult(k)'.result[1].event_session_id = b.event_session_id]_vars

\* a result was posted for a key whose replay is still in flight: the task the
\* submission stored is gone and the posted token is what a poll returns
C2_Witness ==
    /\ "k1" \in DOMAIN results /\ ~results["k1"].instant
    /\ results["k1"].event_session_id = "s1"
    /\ "k1" \notin DOMAIN tasks
    /\ \E r \in replays : r.phone = "k1" /\ ~r.manual

\* the task a poll returns for a stored body: the body with its defaults
ExpectedTask(b) ==
    [userId |-> b.userId, transactionId |-> b.transactionId, realIp |-> b.realIp,
     timestamp |-> IF b.timestamp = 0 THEN now ELSE b.timestamp]

\* replay r ends in this step with a token, for the submission that started it
InstantCompletion(r) ==
    /\ r \in replays /\ ~r.manual /\ r.lastSessionId # ""
    /\ ReplayRequestFailed(r) \/ ReplayDelayDone(r)
    /\ \A q \in replays' : q.rid # r.rid

\* a step the claim allows to remove or change the task of k
C3_ListedEvent(k) ==
    \/ \E b \in ClientTaskBodies : TaskBodyValid(b) /\ SubmitTask(k, b)
    \/ \E b \in ClientResultBodies : ResultBodyValid(b) /\ PostResult(k, b)
    \/ Clear(k)
    \/ Sweep /\ k \in ExpiredTasks

\* C3 as stated: a submitted task is what every poll returns, a later submission
\* replaces it, and only a posted result, a clear or its expiry removes it.
C3_TaskStableAsStated ==
    [][\A k \in ClientKeys :
          /\ \A b \in ClientTaskBodies :
                 (TaskBodyValid(b) /\ SubmitTask(k, b)) =>
                     pollTask(k)' = [ok |-> TRUE, task |-> <<ExpectedTask(b)>>]
          /\ (k \in DOMAIN tasks /\ pollTask(k)' # pollTask(k)) => C3_ListedEvent(k)]_vars

\* C3, amended: a submitted task is what every poll returns, a later submission
\* replaces it, and only a posted result, a clear, its expiry, or the completion
\* with a token of an instant replay started for the same key removes it.
C3_TaskStable ==
    [][\A k \in ClientKeys :
          /\ \A b \in ClientTaskBodies :
                 (TaskBodyValid(b) /\ SubmitTask(k, b)) =>
                     pollTask(k)' = [ok |-> TRUE, task |-> <<ExpectedTask(b)>>]
          /\ (k \in DOMAIN tasks /\ pollTask(k)' # pollTask(k)) =>
                 \/ C3_ListedEvent(k)
                 \/ \E r \in replays : r.phone = k /\ InstantCompletion(r)]_vars

\* an instant replay has completed and retired the task of its key
C3_Witness ==
    /\ "k1" \in DOMAIN results /\ results["k1"].instant
    /\ "k1" \notin DOMAIN tasks

\* C4: DELETE /clear/:phone leaves no task, no result and no ip association
\* for the key, so both polls find nothing, and clearing again changes nothing.
C4_ClearRemovesAll ==
    [][\A k \in ClientKeys :
          Clear(k) =>
              /\ k \notin DOMAIN tasks' /\ k \notin DOMAIN results'
              /\ k \notin DOMAIN phoneIpMap'
              /\ pollTask(k)' = Absent("task") /\ pollResult(k)' = Absent("result")
              /\ Delete(tasks', k) = tasks' /\ Delete(results', k) = results'
              /\ Delete(phoneIpMap', k) = phoneIpMap']_vars

\* a key cleared while the replay its submission started is still in flight:
\* the task and the ip association the submission stored are gone
C4_Witness ==
    /\ "k1" \notin DOMAIN tasks /\ "k1" \notin DOMAIN results
    /\ "k1" \notin DOMAIN phoneIpMap
    /\ \E r \in replays : r.phone = "k1" /\ ~r.manual /\ r.realIp = "ip1"

\* C5: at a sweep, a task or result stored more than MAX_TASK ago is gone
\* afterwards, and one stored less than MAX_TASK ago is still there.
C5_SweepByAge ==
    [][Sweep =>
          \A k \in Keys :
              /\ (k \in DOMAIN tasks /\ now - storedAt.tasks[k] > MAX_TASK) =>
                     k \notin DOMAIN tasks'
              /\ (k \in DOMAIN tasks /\ now - storedAt.tasks[k] < MAX_TASK) =>
                     k \in DOMAIN tasks'
              /\ (k \in DOMAIN results /\ now - storedAt.results[k] > MAX_TASK) =>
                     k \notin DOMAIN results'
              /\ (k \in DOMAIN results /\ now - storedAt.results[k] < MAX_TASK) =>
                     k \in DOMAIN results']_vars

\* C6: every binding of a key refers to a recording that is in the store.
C6_BindingsReferToRecordings ==
    \A ph \in DOMAIN phonePreselfieMap : phonePreselfieMap[ph] \in DOMAIN preSelfies

\* the first recording has been removed after its lifetime, with the key bound
\* to it, while the other key is still bound to a younger recording
C6_Witness ==
    /\ "ps_1" \in issuedIds /\ "ps_1" \notin DOMAIN preSelfies
    /\ "k1" \notin DOMAIN phonePreselfieMap
    /\ "k2" \in DOMAIN phonePreselfieMap /\ phonePreselfieMap["k2"] = "ps_2"
    /\ now > StartTime + MAX_PRESELFIE

\* C7: a submission with a valid payload answers instant=true and starts
\* exactly one replay if and only if its key is bound to a recording that
\* exists with status ready; otherwise it answers instant=false and starts none.
C7_InstantIffReady ==
    [][\A k \in Keys, b \in TaskBodiesOver(UserIds, {0}), ready \in BOOLEAN :
          (TaskBodyValid(b) /\ V11_SubmitTask(k, b, ready)) =>
              LET bound == /\ k \in DOMAIN phonePreselfieMap
                           /\ phonePreselfieMap[k] \in DOMAIN preSelfies
                           /\ preSelfies[phonePreselfieMap[k]].status = "ready"
              IN  /\ V11_SubmitResponse(k, b).instant = bound
                  /\ launched' - launched = IF bound THEN 1 ELSE 0]_vars

\* C8: when a replay started by a submission ends with a token, the same step
\* stores for its key a result with that token, status completed and the
\* instant flag, and removes the task of the key.
C8_InstantResultStored ==
    [][\A r \in replays :
          InstantCompletion(r) =>
              /\ r.phone \in DOMAIN results'
              /\ results'[r.phone].event_session_id = r.lastSessionId
              /\ results'[r.phone].status = "completed"
              /\ results'[r.phone].instant
              /\ r.phone \notin DOMAIN tasks']_vars

\* the replay of the recording has run once and left its token as the result
C8_Witness ==
    /\ "k1" \in DOMAIN results /\ results["k1"].instant
    /\ results["k1"].event_session_id = "s2" /\ results["k1"].status = "completed"
    /\ "k1" \notin DOMAIN tasks
    /\ "ps_1" \in DOMAIN preSelfies /\ preSelfies["ps_1"].useCount = 1

\* C9: a submission that starts a replay has answered while the replay is still
\* in flight and writes no result itself; every replay started by a submission
\* ends after that answer.
C9_AckBeforeCompletion ==
    [][/\ \A k \in ClientKeys, b \in ClientTaskBodies :
              (TaskBodyValid(b) /\ SubmitResponse(k, b).instant /\ SubmitTask(k, b)) =>
                  /\ results' = results
                  /\ \E r \in replays' \ replays : r.phone = k /\ ~r.manual /\ r.acked
       /\ \A r \in replays :
              (~r.manual /\ (ReplayRequestFailed(r) \/ ReplayDelayDone(r))) => r.acked]_vars

\* the submission has been answered, its replay holds a token and has not yet
\* ended: the task is still there and no result is
C9_Witness ==
    /\ "k1" \in DOMAIN tasks /\ "k1" \notin DOMAIN results
    /\ \E r \in replays : /\ r.phone = "k1" /\ ~r.manual /\ r.acked
                          /\ r.pc = "delay" /\ r.lastSessionId = "s2"

\* C10: a replay started by a submission that throws or ends without a token
\* writes no result and leaves the task as it was.
C10_FailedReplayWritesNothing ==
    [][\A r \in replays :
          (\/ V11_ReplayThrows(r)
           \/ \E result \in V11_PageResults :
                  result.event_session_id = "" /\ V11_ReplayResult(r, result)) =>
              /\ results' = results
              /\ tasks' = tasks]_vars

\* C11: a replay started by a submission whose key was cleared while it was
\* in flight, and which ends with a token while the key has no result, leaves
\* the key without a result: the poll still finds nothing.
C11_ClearedReplayInvisible ==
    [][\A r \in replays :
          (/\ r.cleared
           /\ pollResult(r.phone) = Absent("result")
           /\ InstantCompletion(r)) =>
              pollResult(r.phone)' = Absent("result")]_vars

\* C12: once the replay started by a submission for a key bound to a ready
\* recording holds a token, and nothing clears the key, expires its entries or
\* deletes the recording, a poll of the result eventually finds a result with
\* a non-empty token.
C12_TokenEventuallyVisible ==
    (\E r \in replays : ~r.manual /\ r.phone = "k1" /\ r.lastSessionId # "")
        ~> (pollResult("k1").ok /\ pollResult("k1").result[1].event_session_id # "")

\* the replay has ended and the poll finds its token, with the task retired
C12_Witness ==
    /\ replays = {} /\ launched = 1
    /\ pollResult("k1").ok /\ pollResult("k1").result[1].instant
    /\ pollResult("k1").result[1].event_session_id = "s2"

\* C13: a result for a key comes into existence only in a step taken while
\* the key holds a pending task.
C13_ResultOnlyWhilePending ==
    [][\A k \in ClientKeys :
          (k \notin DOMAIN results /\ k \in DOMAIN results') => k \in DOMAIN tasks]_vars


\* C14: a proxy request whose hostname does not carry the allowed domain suffix
\* is answered with 403 and no outbound call is issued for it.
C14_ForeignHostRefused ==
    [][\A phone \in {"k1"} \cup Sessions, m \in Methods, host \in Hosts, path \in ProxyPaths :
          (ProxyRequest(phone, m, host, path) /\ ~HasSuffix(host, AllowedDomain)) =>
              (ProxyAdmission(host) = 403 /\ proxied' = proxied)]_vars


\* C15: an upstream response with status 200, 404 or 500 reaches the caller with
\* the same status: the piped response carries it from its first chunk, the
\* captured response and the rewritten script carry it when the body has ended.
C15_StatusForwarded ==
    [][\A i \in DOMAIN proxied :
          /\ (proxied[i].sent # 0 /\ ~proxied[i].destroyed) =>
                 proxied[i].sent = proxied[i].upstream
          /\ (ProxyResData(i) /\ ~Buffered(proxied[i])) =>
                 proxied'[i].sent = proxied[i].upstream
          /\ (ProxyResEnd(i) /\ proxied[i].sent = 0) =>
                 EndStatus(proxied[i]) = proxied[i].upstream]_vars

\* a piped response has carried the upstream's 500 to its caller, next to a
\* captured exchange whose response has ended
C15_Witness ==
    /\ \E i \in DOMAIN proxied :
           /\ proxied[i].upstream = 500 /\ proxied[i].sent = 500
           /\ ~proxied[i].destroyed /\ ~Buffered(proxied[i])
    /\ \E cs \in DOMAIN captureBuffers : Len(captureBuffers[cs].requests) = 1


C17_NothingEscapes == escaped = {}


\* C18: a save of a capture session that is missing or holds no exchange is
\* answered 400 and creates no recording and no binding; a save of a session
\* with N >= 1 exchanges stores a recording of exactly those N exchanges and
\* reports the count N.
C18_SaveCountsExchanges ==
    [][\A cs \in SaveSessions, label \in SaveLabels, phone \in SavePhones, id \in TwoRecordingIds :
          SavePreselfie(cs, label, phone, id) =>
              IF cs \notin DOMAIN captureBuffers \/ captureBuffers[cs].requests = <<>>
              THEN /\ SaveResponse(cs, label).status = 400
                   /\ preSelfies' = preSelfies
                   /\ phonePreselfieMap' = phonePreselfieMap
              ELSE label # "" =>
                   /\ DOMAIN preSelfies' = DOMAIN preSelfies \cup {id}
                   /\ preSelfies'[id].captures = captureBuffers[cs].requests
                   /\ preSelfies'[id].captureCount = Len(captureBuffers[cs].requests)
                   /\ SaveResponse(cs, label).captureCount = Len(captureBuffers[cs].requests)]_vars

\* a recording of two exchanges has been saved
C18_Witness ==
    \E id \in DOMAIN preSelfies :
        preSelfies[id].captureCount = 2 /\ Len(preSelfies[id].captures) = 2

\* C19: a successful save stores a recording with status ready, binds the given
\* key to it (no binding changes when none is given), and deletes the capture
\* session, so that the same save repeated with no new exchange is refused.
C19_SaveConsumesSession ==
    [][\A cs \in SaveSessions, label \in SaveLabels, phone \in SavePhones, id \in TwoRecordingIds :
          (SavePreselfie(cs, label, phone, id) /\ SaveResponse(cs, label).status = 200) =>
              /\ preSelfies'[id].status = "ready"
              /\ IF phone = "" THEN phonePreselfieMap' = phonePreselfieMap
                 ELSE /\ Trim(phone) \in DOMAIN phonePreselfieMap'
                      /\ phonePreselfieMap'[Trim(phone)] = id
              /\ cs \notin DOMAIN captureBuffers'
              /\ SaveResponse(cs, label)'.status = 400]_vars

\* a saved recording is ready and bound to k1, and its capture session is gone
C19_Witness ==
    /\ "k1" \in DOMAIN phonePreselfieMap
    /\ phonePreselfieMap["k1"] \in DOMAIN preSelfies
    /\ preSelfies[phonePreselfieMap["k1"]].status = "ready"
    /\ captureBuffers = Empty /\ proxied = <<>>


\* C20: the exchanges of a capture session are in issuance order: no exchange is
\* appended for a request after the exchange of a request of the same session
\* that was issued later.
C20_IssuanceOrder ==
    [][\A i \in DOMAIN proxied :
          (ProxyResEnd(i) /\ Captures(proxied[i])) => ~proxied[i].overtaken]_vars


\* the number of exchanges held for a capture session in buffers b
Held(b, cs) == IF cs \in DOMAIN b THEN Len(b[cs].requests) ELSE 0

\* C21: under a capturing key every proxied request whose upstream response has
\* ended is appended to the key's capture session, whatever its method; under
\* any other key no capture session is created or changed.
C21_EveryMethodCaptured ==
    [][\A i \in DOMAIN proxied :
          ProxyResEnd(i) =>
              IF IsCaptureKey(proxied[i].phone)
              THEN Held(captureBuffers', proxied[i].phone) =
                       Held(captureBuffers, proxied[i].phone) + 1
              ELSE captureBuffers' = captureBuffers]_vars


\* C22: capture does not change what the caller receives: of two requests with
\* the same method, path and upstream response, one under a capturing key and
\* one under another key, the callers receive the same status and the same body.
C22_CaptureUnobserved ==
    \A i, j \in DOMAIN proxied :
        (/\ IsCaptureKey(proxied[i].phone) /\ ~IsCaptureKey(proxied[j].phone)
         /\ proxied[i].method = proxied[j].method /\ proxied[i].path = proxied[j].path
         /\ proxied[i].pc = "body" /\ proxied[j].pc = "body"
         /\ proxied[i].upstream = proxied[j].upstream
         /\ proxied[i].body = proxied[j].body
         /\ proxied[i].rest = <<>> /\ proxied[j].rest = <<>>)
        => /\ DeliveredStatus(proxied[i]) = DeliveredStatus(proxied[j])
           /\ Received(proxied[i]) = Received(proxied[j])

\* a captured POST and a piped POST have both read the same two-chunk response
C22_Witness ==
    \E i, j \in DOMAIN proxied :
        /\ Captures(proxied[i]) /\ ~IsCaptureKey(proxied[j].phone)
        /\ proxied[j].method = "POST" /\ proxied[i].path = proxied[j].path
        /\ proxied[i].upstream = 500 /\ proxied[j].upstream = 500
        /\ proxied[i].body = <<<<"b1">>, <<HrefRead>>>> /\ proxied[j].body = proxied[i].body
        /\ proxied[i].rest = <<>> /\ proxied[j].rest = <<>>
        /\ Received(proxied[j]) = <<"b1", HrefRead>>


\* the recorded exchanges whose method is POST
Mutating(captures) == {n \in DOMAIN captures : captures[n].method = "POST"}

\* C23: a replay issues one outbound call for each recorded POST exchange, in
\* order, and none for the others: while it runs it has issued as many calls as
\* there are POST exchanges up to the one it is at, when it ends it has issued
\* as many as the recording holds, and a call on a recording without a POST
\* exchange issues none.
C23_OneCallPerPost ==
    [][/\ \A r \in replays :
            r.pc \in {"http", "delay"} =>
                /\ r.i \in Mutating(r.captures)
                /\ r.calls = Cardinality({n \in Mutating(r.captures) : n <= r.i})
                /\ (\A q \in replays' : q.rid # r.rid) =>
                       r.calls = Cardinality(Mutating(r.captures))
       /\ \A id \in RecordingIds :
            (CallReplay(id, "u1", "") /\ replays' = replays) =>
                Mutating(preSelfies[id].captures) = {}]_vars

\* a replay of a recording POST, GET, POST is at its second and last call
C23_Witness ==
    \E r \in replays :
        /\ Len(r.captures) = 3 /\ Mutating(r.captures) = {1, 3}
        /\ r.i = 3 /\ r.calls = 2


\* a replay of recording id returns in this step (it ends, and not by an exception)
Returns(id) ==
    \/ \E r \in replays :
          /\ r.preselfieId = id /\ \A q \in replays' : q.rid # r.rid
          /\ \/ ReplayDelayDone(r) \/ ReplayRequestFailed(r)
             \/ \E body \in {NoTokenBody, TokenBody} : VideoUploadResponse(r, body)
    \/ CallReplay(id, "u1", "") /\ replays' = replays

\* C24: every replay that returns, by the exchange path or the video path, with
\* or without a token, adds exactly one to its recording's use counter and sets
\* its last-used time, and no other step changes either: after any interleaving
\* of overlapping replays the counter is the number of replays that returned.
C24_UseCounted ==
    [][\A id \in RecordingIds :
          IF Returns(id)
          THEN /\ preSelfies'[id].useCount = preSelfies[id].useCount + 1
               /\ preSelfies'[id].lastUsed = now
          ELSE /\ preSelfies'[id].useCount = preSelfies[id].useCount
               /\ preSelfies'[id].lastUsed = preSelfies[id].lastUsed]_vars

\* of two overlapping replays of one recording the second has returned and the
\* first has not
C24_Witness ==
    /\ launched = 2
    /\ \E r \in replays : r.rid = 1 /\ preSelfies[r.preselfieId].useCount = 1


\* C25: a video replay issues exactly two outbound calls, session-create and
\* then upload, whatever becomes of the first, and it returns no token when
\* neither response carries one.
C25_TwoCalls ==
    [][\A r \in replays :
          (r.pc \in {"session", "upload"} /\ \A q \in replays' : q.rid # r.rid) =>
              /\ r.pc = "upload" /\ r.calls = 2
              /\ r.lastSessionId = "" => UploadToken(r.lastSessionId, NoTokenBody) = ""]_vars


\* C26: a result posted with a missing or empty token is answered 400 and
\* changes nothing: the key's task, result and ip association are as before.
C26_EmptyTokenRefused ==
    [][\A k \in Keys, b \in LooseResultBodies :
          (PostResult(k, b) /\ b.event_session_id = "") =>
              /\ PostResultResponse(k, b).status = 400
              /\ tasks' = tasks /\ results' = results /\ phoneIpMap' = phoneIpMap]_vars

\* a key holds a task, a result and an ip association, which a refused post
\* would have to leave alone
C26_Witness ==
    /\ "k1" \in DOMAIN tasks /\ "k1" \in DOMAIN results /\ "k1" \in DOMAIN phoneIpMap
    /\ ENABLED PostResult("k1", [event_session_id |-> "", status |-> "", realIp |-> "ip1",
                                 timestamp |-> 0])

\* C27: a submission with either correlation field missing is answered 400,
\* stores no task and no ip association and launches no replay (checked here on
\* the Puppeteer server, src/unnamed/part_000).
C27_MissingFieldRefused ==
    [][\A k \in Keys, b \in TaskBodiesOver(UserIds, {0}), ready \in BOOLEAN :
          (V11_SubmitTask(k, b, ready) /\ (b.userId = "" \/ b.transactionId = "")) =>
              /\ V11_SubmitResponse(k, b).status = 400
              /\ tasks' = tasks /\ phoneIpMap' = phoneIpMap
              /\ launched' = launched /\ replays' = replays]_vars


\* C28: a poll of a task or of a result changes no store, and a poll repeated
\* with nothing written in between returns the same value.
C28_PollsReadOnly ==
    [][\A k \in Keys :
          (PollTask(k) \/ PollResult(k)) =>
              /\ tasks' = tasks /\ results' = results /\ phoneIpMap' = phoneIpMap
              /\ preSelfies' = preSelfies /\ phonePreselfieMap' = phonePreselfieMap
              /\ pollTask(k)' = pollTask(k) /\ pollResult(k)' = pollResult(k)]_vars

\* a key holds a task and a result, which both polls return
C28_Witness ==
    /\ pollTask("k1").ok /\ pollTask("k1").task[1].userId = "u1"
    /\ pollResult("k1").ok /\ pollResult("k1").result[1].event_session_id = "s1"

\* C29: a key has an ip association only while it has a task.
C29_IpFollowsTask == \A k \in DOMAIN phoneIpMap : k \in DOMAIN tasks

\* C30: once no request arrives any more and every entry is older than its
\* max-age, the sweep empties every store.
C30_AllEvicted ==
    (ticks = MaxTicks) ~>
        (/\ tasks = Empty /\ results = Empty /\ phoneIpMap = Empty
         /\ captureBuffers = Empty /\ preSelfies = Empty /\ phonePreselfieMap = Empty)


\* C31 as stated: a stored recording is changed only in its use counter, its
\* last-used time and its status, and leaves the store only by explicit deletion.
C31_RecordingFrozenAsStated ==
    [][\A id \in TwoRecordingIds :
          id \in DOMAIN preSelfies =>
              IF id \in DOMAIN preSelfies'
              THEN [preSelfies'[id] EXCEPT !.useCount = preSelfies[id].useCount,
                                           !.lastUsed = preSelfies[id].lastUsed,
                                           !.status = preSelfies[id].status] = preSelfies[id]
              ELSE DeletePreselfie(id)]_vars

\* C31: the exchanges and the exchange count of a stored recording never change
\* and the count is the number of exchanges; an exchange that completes after the
\* save goes to a new capture session, not to the recording.  A recording is
\* changed only in its use counter and last-used time (replay) and its key
\* (bind), and leaves the store only by explicit deletion or by the sweep.
C31_RecordingFrozen ==
    [][\A id \in TwoRecordingIds :
          id \in DOMAIN preSelfies =>
              /\ preSelfies[id].captureCount = Len(preSelfies[id].captures)
              /\ IF id \in DOMAIN preSelfies'
                 THEN /\ preSelfies'[id].captures = preSelfies[id].captures
                      /\ preSelfies'[id].captureCount = preSelfies[id].captureCount
                      /\ [preSelfies'[id] EXCEPT !.useCount = preSelfies[id].useCount,
                                                 !.lastUsed = preSelfies[id].lastUsed,
                                                 !.phone = preSelfies[id].phone]
                             = preSelfies[id]
                 ELSE DeletePreselfie(id) \/ Sweep]_vars

\* a recording has been saved and replayed, and an exchange of its capture
\* session has completed since
C31_Witness ==
    /\ "ps_1" \in DOMAIN preSelfies /\ preSelfies["ps_1"].useCount = 1
    /\ preSelfies["ps_1"].captureCount = 1
    /\ "preselfie_a" \in DOMAIN captureBuffers


\* C32: binding a key to an unknown recording id is answered 404 and changes no
\* binding; binding it to a known id is answered 200 and makes the key (without
\* its surrounding blanks) map to that id, whatever it mapped to before, and
\* leaves the binding of every other key as it was; unbinding a key removes
\* that key's binding only, and unbinding it again changes nothing.
C32_BindAndUnbind ==
    [][/\ \A id \in TwoRecordingIds, k \in PaddedKeys :
             AssignPreselfie(id, k) =>
                 /\ AssignResponse(id, k) = (IF id \in DOMAIN preSelfies THEN 200 ELSE 404)
                 /\ id \notin DOMAIN preSelfies => phonePreselfieMap' = phonePreselfieMap
                 /\ id \in DOMAIN preSelfies => GetOr(phonePreselfieMap', Trim(k)) = id
                 /\ \A k2 \in Keys \ {Trim(k)} :
                        GetOr(phonePreselfieMap', k2) = GetOr(phonePreselfieMap, k2)
       /\ \A k \in Keys :
             UnassignPreselfie(k) =>
                 /\ k \notin DOMAIN phonePreselfieMap'
                 /\ \A k2 \in Keys \ {k} :
                        GetOr(phonePreselfieMap', k2) = GetOr(phonePreselfieMap, k2)
                 /\ Delete(phonePreselfieMap', Trim(k)) = phonePreselfieMap']_vars

\* a key saved with one recording has been bound to another, while a second key
\* is bound to the first recording
C32_Witness ==
    /\ {"ps_1", "ps_2"} \subseteq DOMAIN preSelfies
    /\ preSelfies["ps_1"].phone = "k1"
    /\ GetOr(phonePreselfieMap, "k1") = "ps_2"
    /\ GetOr(phonePreselfieMap, "k2") = "ps_1"


\* C33: a replay of recorded exchanges moves through the recording forwards only,
\* from one POST exchange to the next one after it; a call that fails (error or
\* timeout) does not end the replay while a later POST exchange remains: that
\* exchange is attempted next; the replay ends only at the recording's last POST
\* exchange, and, its calls settling, every replay ends.
C33_FailureDoesNotAbort ==
    /\ [][\A r \in replays :
            r.pc \in {"http", "delay"} =>
                LET j == NextPost(r.captures, r.i + 1)
                IN  /\ \A q \in replays' :
                           q.rid = r.rid =>
                               /\ q.i \in {r.i, j}
                               /\ q.i = j => (q.pc = "http" /\ q.calls = r.calls + 1)
                    /\ (\A q \in replays' : q.rid # r.rid) => j > Len(r.captures)
                    /\ (ReplayRequestFailed(r) /\ j <= Len(r.captures)) =>
                           \E q \in replays' : q.rid = r.rid /\ q.i = j /\ q.pc = "http"]_vars
    /\ \A n \in 1..MaxOverlap :
           (\E r \in replays : r.rid = n /\ r.pc \in {"http", "delay"})
               ~> (\A r \in replays : r.rid # n)

\* a replay of three POST exchanges is at the third after its first two calls failed
C33_Witness ==
    \E r \in replays :
        /\ Mutating(r.captures) = {1, 2, 3}
        /\ r.i = 3 /\ r.failed = 2 /\ r.calls = 3 /\ r.pc = "http"


\* the token a response carries under any of the field names the extraction
\* looks at, "" if it carries none
TokenCarried(body) ==
    Or(body.data_event_session_id, Or(body.event_session_id, body.session_id))

\* C34: after each response of a replay of recorded exchanges the token the
\* replay holds is the one that response carries, under whichever field name,
\* and the one held before if the response carries none: what the replay returns
\* is the token of the last response that carried one.
C34_LastTokenKept ==
    [][\A r \in replays, body \in ReplayBodies :
          ReplayResponse(r, body) =>
              \E q \in replays' :
                  /\ q.rid = r.rid
                  /\ q.lastSessionId = Or(TokenCarried(body), r.lastSessionId)]_vars


\* C35: when the replay launched by a submission ends with a token while the
\* key holds the task of a later submission (another user id), that task stays
\* and the token is not stored as the key's result.
C35_CompletionOfLauncher ==
    [][\A r \in replays :
          ( /\ ~r.manual /\ \A q \in replays' : q.rid # r.rid
            /\ r.phone \in DOMAIN tasks /\ tasks[r.phone].userId # r.userId ) =>
              /\ r.phone \in DOMAIN tasks' /\ tasks'[r.phone] = tasks[r.phone]
              /\ results' = results]_vars


Entry(m, k) == IF k \in DOMAIN m THEN <<m[k]>> ELSE <<>>

\* a submission, a posted result, a clear, or the end of a replay launched by a
\* submission, for key k
OperationOn(k) ==
    \/ \E b \in PairTaskBodies : SubmitTask(k, b)
    \/ \E b \in PairResultBodies : PostResult(k, b)
    \/ Clear(k)
    \/ \E r \in replays :
          /\ r.phone = k /\ ~r.manual /\ \A q \in replays' : q.rid # r.rid
          /\ ReplayDelayDone(r) \/ ReplayRequestFailed(r)

\* C37: a submission, a posted result, a clear and the end of an instant replay
\* for one key leave the task, the result and the ip association of every other
\* key as they were, and leave every binding and the exchanges of every
\* recording as they were.
C37_KeysIndependent ==
    [][\A k \in Keys :
          OperationOn(k) =>
              /\ \A k2 \in Keys \ {k} :
                     /\ Entry(tasks', k2) = Entry(tasks, k2)
                     /\ Entry(results', k2) = Entry(results, k2)
                     /\ Entry(phoneIpMap', k2) = Entry(phoneIpMap, k2)
              /\ phonePreselfieMap' = phonePreselfieMap
              /\ DOMAIN preSelfies' = DOMAIN preSelfies
              /\ \A id \in DOMAIN preSelfies :
                     preSelfies'[id].captures = preSelfies[id].captures]_vars

\* an instant replay for k1 has stored its result while k2 holds a task, a
\* posted result and an ip association
C37_Witness ==
    /\ "k1" \in DOMAIN results /\ results["k1"].instant
    /\ "k2" \in DOMAIN tasks /\ "k2" \in DOMAIN phoneIpMap
    /\ "k2" \in DOMAIN results /\ ~results["k2"].instant


\* C38: in the capture-based server every stored recording has status ready in
\* every state, so every valid submission for a key bound to a stored recording
\* is answered as instant and launches a replay of that recording, however
\* often the recording has been replayed before.
C38_AlwaysReady ==
    [][/\ \A id \in DOMAIN preSelfies : preSelfies[id].status = "ready"
       /\ \A k \in Keys, b \in ClientTaskBodies :
             ( /\ SubmitTask(k, b) /\ TaskBodyValid(b)
               /\ k \in DOMAIN phonePreselfieMap
               /\ phonePreselfieMap[k] \in DOMAIN preSelfies ) =>
                 /\ SubmitResponse(k, b).instant
                 /\ launched' = launched + 1
                 /\ \E q \in replays' \ replays :
                        /\ q.phone = k /\ ~q.manual
                        /\ q.preselfieId = phonePreselfieMap[k]]_vars

\* a submission has launched a replay of a recording that had been replayed
\* twice and once more since
C38_Witness ==
    /\ "ps_1" \in DOMAIN preSelfies /\ preSelfies["ps_1"].useCount = MaxUses + 1
    /\ launched = 1 /\ replays = {}
    /\ GetOr(phonePreselfieMap, "k1") = "ps_1" /\ "k1" \in DOMAIN results


\* C39: a capture session yields at most one recording and leaves nothing
\* behind: where every recording is saved from the one session id, no capture
\* session exists once a recording does, and there is at most one recording.
C39_SessionGoneAfterSave ==
    /\ preSelfies # Empty => \A cs \in Sessions : cs \notin DOMAIN captureBuffers
    /\ Cardinality(DOMAIN preSelfies) <= Cardinality(Sessions)

====
